---- MODULE Spec2Model ----
(***************************************************************************)
(* NewsGenieAgent (src/streamlit_app.py): the article store, its counters, *)
(* the user preferences, the enrichment pipeline and the query layer.      *)
(*                                                                         *)
(* Python values are represented as follows.                               *)
(*   str            a TLA+ string (a sequence of characters)               *)
(*   Optional[str]  <<>> for None, <<s>> for the string s                  *)
(*   list           a sequence                                             *)
(*   dict           a function whose DOMAIN is the set of keys             *)
(*   datetime       [t |-> hours, aware |-> has a UTC offset]              *)
(*   a JSON member  [j |-> "absent"], [j |-> "null"], [j |-> "str", ...]   *)
(***************************************************************************)
EXTENDS Integers, Sequences, FiniteSets, TLC

VARIABLES api_key, articles, user_preferences, statistics,
          clock, hash_seed, call, result

vars == <<api_key, articles, user_preferences, statistics,
          clock, hash_seed, call, result>>

(***************************************************************************)
(* Bounds of the model.                                                    *)
(***************************************************************************)
\* datetime.now() is read at most this many hours after construction
MaxClock == 2
\* hours that pass between two reads of the clock: 1..MaxElapse
MaxElapse == 1
\* the store holds at most this many articles
MaxStore == 3
\* fetch_news is called with max_results in 0..MaxResults
MaxResults == 2
\* an upstream payload lists at most this many records
MaxApiItems == 2
\* the process's string-hash seed is one of 0..MaxSeed
MaxSeed == 1
\* _generate_sample_news is applied to counts in 0..MaxCount
MaxCount == 31
\* _analyze_sentiment is applied to titles and descriptions of at most
\* this many words
MaxWords == 2

(***************************************************************************)
(* Python built-ins.                                                       *)
(***************************************************************************)
None == <<>>
Some(s) == <<s>>

Min(a, b) == IF a <= b THEN a ELSE b
Max(a, b) == IF a >= b THEN a ELSE b

UpperCase == "ABCDEFGHIJKLMNOPQRSTUVWXYZ"
LowerCase == "abcdefghijklmnopqrstuvwxyz"
Digits == "0123456789"

CharsOf(s) == { SubSeq(s, i, i) : i \in 1..Len(s) }

\* the characters the pattern \w matches
WordChars == CharsOf(UpperCase) \cup CharsOf(LowerCase) \cup CharsOf(Digits) \cup {"_"}

\* the characters str.strip() removes
WhiteSpace == {" "}

\* str.lower() on one character
LowerChar(c) ==
    IF c \in CharsOf(UpperCase)
    THEN LET i == CHOOSE k \in 1..Len(UpperCase) : SubSeq(UpperCase, k, k) = c
         IN  SubSeq(LowerCase, i, i)
    ELSE c

\* str.lower(): every character lowered, by halves
RECURSIVE LowerOf(_)
LowerOf(s) ==
    IF Len(s) = 0 THEN ""
    ELSE IF Len(s) = 1 THEN LowerChar(s)
    ELSE LET h == Len(s) \div 2
         IN  LowerOf(SubSeq(s, 1, h)) \o LowerOf(SubSeq(s, h + 1, Len(s)))

\* k in text, for strings
Occurs(text, k) ==
    \E i \in 1..(Len(text) - Len(k) + 1) : SubSeq(text, i, i + Len(k) - 1) = k

\* x in xs, for lists
InList(x, xs) == \E i \in 1..Len(xs) : xs[i] = x

\* s[:n]
Prefix(s, n) ==
    IF n >= 0 THEN SubSeq(s, 1, Min(n, Len(s)))
    ELSE SubSeq(s, 1, Max(Len(s) + n, 0))

\* str.strip()
RECURSIVE strip(_)
strip(s) ==
    IF Len(s) = 0 THEN s
    ELSE IF SubSeq(s, 1, 1) \in WhiteSpace THEN strip(SubSeq(s, 2, Len(s)))
    ELSE IF SubSeq(s, Len(s), Len(s)) \in WhiteSpace THEN strip(SubSeq(s, 1, Len(s) - 1))
    ELSE s

\* s.split('.')[0]
FirstSentence(s) ==
    LET dots == { k \in 1..Len(s) : SubSeq(s, k, k) = "." }
    IN  IF dots = {} THEN s
        ELSE SubSeq(s, 1, (CHOOSE k \in dots : \A m \in dots : k <= m) - 1)

\* re.findall(r'\b\w+\b', text): the maximal runs of word characters, in order
findall_words(text) ==
    LET IsWord(i) == SubSeq(text, i, i) \in WordChars
        starts == { i \in 1..Len(text) : IsWord(i) /\ (i = 1 \/ ~IsWord(i - 1)) }
        EndOf(i) == CHOOSE j \in i..Len(text) :
                        /\ \A m \in i..j : IsWord(m)
                        /\ (j = Len(text) \/ ~IsWord(j + 1))
        Nth(k) == CHOOSE i \in starts : Cardinality({ j \in starts : j < i }) = k - 1
    IN  [k \in 1..Cardinality(starts) |-> SubSeq(text, Nth(k), EndOf(Nth(k)))]

\* the elements of a list, first occurrences in order
RECURSIVE Dedup(_)
Dedup(xs) ==
    IF xs = <<>> THEN <<>>
    ELSE LET rest == Dedup(SubSeq(xs, 1, Len(xs) - 1))
             x == xs[Len(xs)]
         IN  IF InList(x, rest) THEN rest ELSE Append(rest, x)

\* list(set(xs)): the distinct elements of xs in the iteration order of a set
\* of str, which depends on the process's hash seed and not on the order of
\* xs.  The seed selects a rotation of the distinct elements, reversed when
\* the seed is odd.
list_set(xs, seed) ==
    LET d == Dedup(xs)
        n == Len(d)
        rot == [i \in 1..n |-> d[((i - 1 + seed) % n) + 1]]
    IN  IF seed % 2 = 1 THEN [i \in 1..n |-> rot[n + 1 - i]] ELSE rot

\* d[k] += 1 on a defaultdict(int)
Incr(d, k) ==
    IF k \in DOMAIN d THEN [d EXCEPT ![k] = @ + 1]
    ELSE [x \in DOMAIN d \cup {k} |-> IF x = k THEN 1 ELSE d[x]]

\* defaultdict(int)()
EmptyDict == [x \in {} |-> 0]

(***************************************************************************)
(* NewsArticle and the class attributes of NewsGenieAgent.                 *)
(***************************************************************************)
NewsArticle(title, description, url, source, published_at, category) ==
    [title |-> title, description |-> description, url |-> url,
     source |-> source, published_at |-> published_at, category |-> category,
     sentiment |-> "neutral", summary |-> "", keywords |-> <<>>]

CATEGORIES ==
    <<"Business", "Technology", "Sports", "Entertainment",
      "Health", "Science", "Politics", "General">>

SENTIMENT_KEYWORDS ==
    [positive |-> <<"success", "growth", "win", "breakthrough", "achievement",
                    "innovation", "improve", "gain", "rise", "profit">>,
     negative |-> <<"fail", "crisis", "decline", "loss", "problem", "concern",
                    "risk", "threat", "drop", "controversy">>,
     neutral  |-> <<"report", "announce", "state", "update", "change", "develop">>]

common_words ==
    {"the", "a", "an", "and", "or", "but", "in", "on", "at",
     "to", "for", "of", "with", "by", "from", "as", "is", "was"}

samples ==
    << [title |-> "AI Revolution: New Breakthrough in Machine Learning",
        description |-> "Researchers announce major advancement in neural networks that could transform the industry.",
        category |-> "Technology", source |-> "Tech News"],
       [title |-> "Stock Market Reaches New Heights Amid Economic Recovery",
        description |-> "Major indices show significant gains as investors show confidence in economic outlook.",
        category |-> "Business", source |-> "Financial Times"],
       [title |-> "Championship Game Ends in Dramatic Fashion",
        description |-> "Thrilling finale sees underdog team clinch victory in final seconds of play.",
        category |-> "Sports", source |-> "Sports Daily"],
       [title |-> "New Health Study Reveals Benefits of Mediterranean Diet",
        description |-> "Long-term research confirms positive effects on heart health and longevity.",
        category |-> "Health", source |-> "Health Journal"],
       [title |-> "Climate Scientists Report Concerning Trends in Global Temperatures",
        description |-> "Latest data shows acceleration in warming patterns across multiple regions.",
        category |-> "Science", source |-> "Science Today"],
       [title |-> "Major Policy Changes Announced by Government Officials",
        description |-> "New legislation aims to address key concerns raised by citizens nationwide.",
        category |-> "Politics", source |-> "Political Review"],
       [title |-> "Blockbuster Film Breaks Box Office Records",
        description |-> "Latest release exceeds expectations with record-breaking opening weekend.",
        category |-> "Entertainment", source |-> "Entertainment Weekly"],
       [title |-> "Tech Giant Unveils Revolutionary New Product",
        description |-> "Company announces innovative device that promises to change how we interact with technology.",
        category |-> "Technology", source |-> "Tech Insider"],
       [title |-> "Small Business Growth Surges in Rural Areas",
        description |-> "Entrepreneurial activity shows significant increase outside major metropolitan regions.",
        category |-> "Business", source |-> "Business Week"],
       [title |-> "Olympic Athletes Prepare for Upcoming Games",
        description |-> "Training intensifies as competitors gear up for international competition.",
        category |-> "Sports", source |-> "Olympic News"] >>

\* the factor of samples * 3
SampleRepeat == 3

\* samples * 3
RepeatedSamples ==
    [i \in 1..(SampleRepeat * Len(samples)) |-> samples[((i - 1) % Len(samples)) + 1]]

\* datetime.now() - timedelta(hours=i)
HoursBefore(now, i) == [t |-> now - i, aware |-> FALSE]

(***************************************************************************)
(* _generate_sample_news                                                   *)
(***************************************************************************)
\* the for loop: i is enumerate's index, acc the list articles
RECURSIVE SampleLoop(_, _, _, _, _)
SampleLoop(category, count, now, i, acc) ==
    IF i >= Len(RepeatedSamples) THEN acc
    ELSE IF Len(acc) >= count THEN acc
    ELSE LET sample == RepeatedSamples[i + 1] IN
         IF category # "" /\ sample.category # category
         THEN SampleLoop(category, count, now, i + 1, acc)
         ELSE SampleLoop(category, count, now, i + 1,
                Append(acc,
                  NewsArticle(
                    sample.title \o " - Update #" \o ToString((i \div Len(samples)) + 1),
                    Some(sample.description),
                    "https://example.com/article/" \o ToString(i),
                    sample.source,
                    HoursBefore(now, i),
                    sample.category)))

\* _generate_sample_news without the category test of its loop
sample_news_of_any_category(category, count, now) ==
    Prefix(SampleLoop("", count, now, 0, <<>>), count)

_generate_sample_news(category, count, now) ==
    Prefix(SampleLoop(category, count, now, 0, <<>>), count)

(***************************************************************************)
(* The inputs the operations are applied to.                               *)
(***************************************************************************)
SeqsUpTo(S, n) == UNION { [1..k -> S] : k \in 0..n }

\* the api_key argument of the constructor
ApiKeyArgs == {None, Some("secret")}

Queries == {"ai"}
FetchCategories == {"", "Technology", "General"}

\* a JSON member
JAbsent == [j |-> "absent"]
JNull == [j |-> "null"]
JStr(s) == [j |-> "str", s |-> s]
JObj(o) == [j |-> "obj", o |-> o]

\* dict.get(key, default) with a str default; the member is absent, null or a str
Get(member, default) ==
    CASE member.j = "absent" -> default
      [] member.j = "null" -> None
      [] OTHER -> Some(member.s)

\* a timestamp string: see _parse_date
Stamp(iso, t, suffix) == JStr([iso |-> iso, t |-> t, suffix |-> suffix])

\* records of an upstream payload
ItemAware ==
    [title |-> JStr("Win win"), description |-> JStr("Markets fail."),
     url |-> JStr("https://news.example/1"), source |-> JObj([name |-> JStr("Wire")]),
     publishedAt |-> Stamp(TRUE, 0, "Z")]
ItemBare ==
    [title |-> JStr("Profit rise despite risk"), description |-> JAbsent,
     url |-> JAbsent, source |-> JAbsent, publishedAt |-> JAbsent]
ItemNullDescription ==
    [title |-> JStr("Crisis"), description |-> JNull,
     url |-> JStr("https://news.example/2"), source |-> JObj([name |-> JAbsent]),
     publishedAt |-> Stamp(FALSE, 0, "")]
ItemRemoved ==
    [title |-> JStr("[Removed]"), description |-> JStr("[Removed]"),
     url |-> JStr("https://removed.com"), source |-> JObj([name |-> JStr("[Removed]")]),
     publishedAt |-> Stamp(TRUE, 0, "Z")]
ItemNullSource ==
    [title |-> JStr("Growth"), description |-> JStr("Report"),
     url |-> JAbsent, source |-> JNull, publishedAt |-> JNull]

ApiItems == {ItemAware, ItemBare, ItemNullDescription, ItemRemoved, ItemNullSource}

\* what requests.get, raise_for_status and response.json can give
Responses ==
    { [kind |-> k] : k \in {"transport_error", "error_status", "not_json_object"} }
    \cup { [kind |-> "json_object", articles |-> None] }
    \cup { [kind |-> "json_object", articles |-> Some(items)] :
             items \in SeqsUpTo(ApiItems, MaxApiItems) }

\* the arguments of set_user_preferences: None or a list
CategoryArgs == {None, Some(<<>>), Some(<<"Technology">>)}
KeywordArgs == {None, Some(<<>>), Some(<<"win">>)}
SourceArgs == {None, Some(<<>>), Some(<<"Tech News", "Wire">>)}

Limits == {0, 1, 10}
CategoryQueries == {"Technology"}
SentimentQueries == {"positive"}
SearchQueries == {"WIN"}

NoResult == [raised |-> FALSE, value |-> None]
Returned(v) == [raised |-> FALSE, value |-> v]
Raised == [raised |-> TRUE, value |-> None]

(***************************************************************************)
(* lower and the substring test are evaluated once for each string the     *)
(* inputs above can put into an article or a query, and looked up          *)
(* afterwards; any other string is evaluated as it comes.                  *)
(***************************************************************************)
SampleTitle(i) ==
    RepeatedSamples[i + 1].title \o " - Update #" \o ToString((i \div Len(samples)) + 1)

\* the title and the description of every article the inputs can produce
KnownPairs ==
    { <<SampleTitle(i), RepeatedSamples[i + 1].description>> :
        i \in 0..(Len(RepeatedSamples) - 1) }
    \cup { <<Get(item.title, Some(""))[1], Get(item.description, Some(""))[1]>> :
             item \in { i \in ApiItems : i.title.j = "str" /\ i.description.j # "null" } }

KnownStrings ==
    { p[1] : p \in KnownPairs } \cup { p[2] : p \in KnownPairs }
    \cup { p[1] \o " " \o p[2] : p \in KnownPairs } \cup SearchQueries

LowerTable == [s \in KnownStrings |-> LowerOf(s)]

lower(s) == IF s \in KnownStrings THEN LowerTable[s] ELSE LowerOf(s)

ListItems(xs) == { xs[i] : i \in 1..Len(xs) }

KnownNeedles ==
    UNION { ListItems(SENTIMENT_KEYWORDS[s]) : s \in DOMAIN SENTIMENT_KEYWORDS }
    \cup UNION { ListItems(k[1]) : k \in KeywordArgs \ {None} }
    \cup { LowerOf(q) : q \in SearchQueries }

KnownLowered == { LowerTable[s] : s \in KnownStrings }

OccursTable == [text \in KnownLowered |-> { k \in KnownNeedles : Occurs(text, k) }]

\* k in text
Contains(text, k) ==
    IF text \in KnownLowered /\ k \in KnownNeedles THEN k \in OccursTable[text]
    ELSE Occurs(text, k)

(***************************************************************************)
(* The enrichment pipeline.                                                *)
(***************************************************************************)
\* article.title + " " + article.description raises TypeError when the
\* description is None
ConcatRaises(article) == article.description = None

\* (article.title + " " + article.description).lower()
ArticleText(article) == lower(article.title \o " " \o article.description[1])

\* the inner for loop of _analyze_sentiment: one point for each keyword of the
\* list that is in the text
Score(text, keywords) ==
    Cardinality({ i \in 1..Len(keywords) : Contains(text, keywords[i]) })

\* the comparison of _analyze_sentiment with a tie going to "positive"
LabelTieIsPositive(scores) ==
    IF scores.positive >= scores.negative THEN "positive"
    ELSE "negative"

Label(scores) ==
    IF scores.positive > scores.negative THEN "positive"
    ELSE IF scores.negative > scores.positive THEN "negative"
    ELSE "neutral"

_analyze_sentiment(article) ==
    LET text == ArticleText(article)
        scores == [s \in DOMAIN SENTIMENT_KEYWORDS |-> Score(text, SENTIMENT_KEYWORDS[s])]
    IN  Label(scores)

_generate_summary(article) ==
    IF article.description = None \/ article.description = Some("")
    THEN article.title
    ELSE LET description == article.description[1]
             summary == strip(FirstSentence(description)) \o "."
         IN  IF Len(summary) > 20 THEN summary
             ELSE Prefix(description, 100) \o "..."

\* [w for w in words if len(w) > 4 and w not in common_words]
\* the length test of _extract_keywords one character too lenient
IsKeywordOfLength4(w) == Len(w) >= 4 /\ w \notin common_words

IsKeyword(w) == Len(w) > 4 /\ w \notin common_words

_extract_keywords(article, seed) ==
    LET text == ArticleText(article)
        words == findall_words(text)
        keywords == SelectSeq(words, IsKeyword)
    IN  Prefix(list_set(keywords, seed), 5)

(***************************************************************************)
(* _parse_date and _fetch_from_api.  The upstream answers a request with a  *)
(* transport error, an error status, a body that is not a JSON object, or a *)
(* JSON object.                                                             *)
(***************************************************************************)
\* A timestamp string is [iso, t, suffix]: iso is whether the text before the
\* suffix is an ISO 8601 date and time, t the hour it names, suffix "Z" or "".
\* date_string.replace('Z', '+00:00') raises on None and fromisoformat raises
\* on a malformed string; both are caught and give datetime.now().
_parse_date(date_string, now) ==
    IF date_string = None THEN [t |-> now, aware |-> FALSE]
    ELSE LET d == date_string[1] IN
         IF ~d.iso THEN [t |-> now, aware |-> FALSE]
         ELSE [t |-> d.t, aware |-> (d.suffix = "Z")]

\* item.get("title") and item.get("title") != "[Removed]"
KeepItem(item) ==
    LET title == Get(item.title, None)
    IN  title # None /\ title # Some("") /\ title # Some("[Removed]")

\* item.get("source", {}).get("name", "Unknown") raises AttributeError when
\* source is null
SourceRaises(item) == item.source.j = "null"

SourceName(item) ==
    IF item.source.j = "absent" THEN "Unknown"
    ELSE Get(item.source.o.name, Some("Unknown"))[1]

\* the for loop over data.get("articles", [])
RECURSIVE ItemLoop(_, _, _, _, _)
ItemLoop(items, category, now, i, acc) ==
    IF i > Len(items) THEN [raised |-> FALSE, articles |-> acc]
    ELSE LET item == items[i] IN
         IF ~KeepItem(item) THEN ItemLoop(items, category, now, i + 1, acc)
         ELSE IF SourceRaises(item) THEN [raised |-> TRUE, articles |-> <<>>]
         ELSE ItemLoop(items, category, now, i + 1,
                Append(acc,
                  NewsArticle(
                    Get(item.title, Some(""))[1],
                    Get(item.description, Some("")),
                    Get(item.url, Some(""))[1],
                    SourceName(item),
                    _parse_date(Get(item.publishedAt, None), now),
                    IF category # "" THEN category ELSE "General")))

_fetch_from_api(query, category, max_results, response, now) ==
    IF response.kind # "json_object" THEN [raised |-> TRUE, articles |-> <<>>]
    ELSE ItemLoop(IF response.articles = None THEN <<>> ELSE response.articles[1],
                  category, now, 1, <<>>)

(***************************************************************************)
(* fetch_news                                                              *)
(***************************************************************************)
\* the try block and the fallback to sample data
Candidates(key, query, category, max_results, response, now) ==
    LET fetched == IF key # "" /\ key # "demo"
                   THEN _fetch_from_api(query, category, max_results, response, now)
                   ELSE [raised |-> FALSE, articles |-> <<>>]
        got == IF fetched.raised THEN <<>> ELSE fetched.articles
    IN  IF got = <<>> THEN _generate_sample_news(category, max_results, now)
        ELSE got

\* the three derived fields of an article
Derived(article, seed) ==
    [sentiment |-> _analyze_sentiment(article),
     summary |-> _generate_summary(article),
     keywords |-> _extract_keywords(article, seed)]

\* Derived, evaluated once for each text the inputs can put into an article
DerivedTable ==
    [p \in KnownPairs, seed \in 0..MaxSeed |->
        Derived([title |-> p[1], description |-> Some(p[2])], seed)]

\* the first three statements of the body of the for loop of fetch_news
Enrich(article, seed) ==
    LET d == IF <<article.title, article.description[1]>> \in KnownPairs
                /\ seed \in 0..MaxSeed
             THEN DerivedTable[<<article.title, article.description[1]>>, seed]
             ELSE Derived(article, seed)
    IN  [article EXCEPT !.sentiment = d.sentiment,
                        !.summary = d.summary,
                        !.keywords = d.keywords]

Count(stats, article) ==
    [total_articles |-> stats.total_articles + 1,
     by_category |-> Incr(stats.by_category, article.category),
     by_sentiment |-> Incr(stats.by_sentiment, article.sentiment),
     by_source |-> Incr(stats.by_source, article.source)]

\* the for loop of fetch_news: the articles enriched so far and the counters;
\* the loop ends with the first article whose text cannot be built
RECURSIVE ProcessLoop(_, _, _, _, _)
ProcessLoop(arts, seed, i, done, stats) ==
    IF i > Len(arts) THEN [raised |-> FALSE, articles |-> done, statistics |-> stats]
    ELSE IF ConcatRaises(arts[i])
         THEN [raised |-> TRUE, articles |-> done, statistics |-> stats]
         ELSE LET a == Enrich(arts[i], seed)
              IN  ProcessLoop(arts, seed, i + 1, Append(done, a), Count(stats, a))

(***************************************************************************)
(* __init__                                                                *)
(***************************************************************************)
EmptyStatistics ==
    [total_articles |-> 0, by_category |-> EmptyDict,
     by_sentiment |-> EmptyDict, by_source |-> EmptyDict]

__init__(arg) ==
    /\ api_key = IF arg = None \/ arg = Some("") THEN "demo" ELSE arg[1]
    /\ articles = <<>>
    /\ user_preferences = [categories |-> <<>>, keywords |-> <<>>, sources |-> <<>>]
    /\ statistics = EmptyStatistics

\* call is the operation applied last, with what the properties below read of
\* its arguments; result is what it returned, or that it raised
Init ==
    /\ \E arg \in ApiKeyArgs : __init__(arg)
    /\ clock = 0
    /\ hash_seed \in 0..MaxSeed
    /\ call = [op |-> "__init__"]
    /\ result = NoResult

(***************************************************************************)
(* fetch_news                                                              *)
(***************************************************************************)
\* whether the call got its articles from the upstream
Upstream(key, query, category, max_results, response, now) ==
    IF ~(key # "" /\ key # "demo") THEN "unconfigured"
    ELSE IF _fetch_from_api(query, category, max_results, response, now).raised
         THEN "failed" ELSE "answered"

fetch_news(query, category, max_results, response, now) ==
    \E cand \in {Candidates(api_key, query, category, max_results, response, now)} :
      /\ Len(articles) + Len(cand) <= MaxStore
      /\ \E p \in {ProcessLoop(cand, hash_seed, 1, <<>>, statistics)} :
           /\ clock' = now
           /\ statistics' = p.statistics
           /\ articles' = IF p.raised THEN articles ELSE articles \o p.articles
           /\ result' = IF p.raised THEN Raised ELSE Returned(p.articles)
           /\ call' = [op |-> "fetch_news", category |-> category,
                       max_results |-> max_results,
                       upstream |-> Upstream(api_key, query, category, max_results,
                                             response, now)]
           /\ UNCHANGED <<api_key, user_preferences, hash_seed>>

(***************************************************************************)
(* set_user_preferences                                                    *)
(***************************************************************************)
\* the truth value of an Optional[List[str]] argument
Truthy(arg) == arg # None /\ arg[1] # <<>>

set_user_preferences(categories, keywords, sources) ==
    /\ user_preferences' =
         [categories |-> IF Truthy(categories) THEN categories[1]
                         ELSE user_preferences.categories,
          keywords |-> IF Truthy(keywords) THEN keywords[1]
                       ELSE user_preferences.keywords,
          sources |-> IF Truthy(sources) THEN sources[1]
                      ELSE user_preferences.sources]
    /\ call' = [op |-> "set_user_preferences"]
    /\ result' = NoResult
    /\ UNCHANGED <<api_key, articles, statistics, clock, hash_seed>>

(***************************************************************************)
(* get_personalized_news                                                   *)
(***************************************************************************)
\* list.sort compares the keys of a list of two or more elements; comparing an
\* offset-naive with an offset-aware datetime raises TypeError
SortRaises(xs) ==
    \E i, j \in 1..Len(xs) : xs[i].published_at.aware # xs[j].published_at.aware

\* x put into a list sorted by published_at descending, behind its equals
RECURSIVE Insert(_, _)
Insert(x, sorted) ==
    IF sorted = <<>> THEN <<x>>
    ELSE IF Head(sorted).published_at.t >= x.published_at.t
         THEN <<Head(sorted)>> \o Insert(x, Tail(sorted))
         ELSE <<x>> \o sorted

\* sort(key=lambda x: x.published_at, reverse=True): stable
RECURSIVE SortByRecency(_)
SortByRecency(xs) ==
    IF xs = <<>> THEN <<>>
    ELSE Insert(xs[Len(xs)], SortByRecency(SubSeq(xs, 1, Len(xs) - 1)))

Reorderings(xs) ==
    { [i \in 1..Len(xs) |-> xs[p[i]]] :
        p \in { q \in [1..Len(xs) -> 1..Len(xs)] :
                  \A i, j \in 1..Len(xs) : q[i] = q[j] => i = j } }

\* the three filters
Filtered(store, prefs) ==
    LET InCategories(a) == InList(a.category, prefs.categories)
        HasKeyword(a) ==
            \E i \in 1..Len(prefs.keywords) :
                \/ Contains(lower(a.title), prefs.keywords[i])
                \/ Contains(lower(a.description[1]), prefs.keywords[i])
        InSources(a) == InList(a.source, prefs.sources)
        f1 == IF prefs.categories # <<>> THEN SelectSeq(store, InCategories) ELSE store
        f2 == IF prefs.keywords # <<>> THEN SelectSeq(f1, HasKeyword) ELSE f1
        f3 == IF prefs.sources # <<>> THEN SelectSeq(f2, InSources) ELSE f2
    IN  f3

\* filtered is still the list self.articles when no filter has been applied
IsStore(prefs) ==
    prefs.categories = <<>> /\ prefs.keywords = <<>> /\ prefs.sources = <<>>

get_personalized_news(limit) ==
    LET filtered == Filtered(articles, user_preferences) IN
    /\ call' = [op |-> "get_personalized_news", limit |-> limit]
    /\ \/ /\ ~SortRaises(filtered)
          /\ articles' = IF IsStore(user_preferences) THEN SortByRecency(filtered)
                         ELSE articles
          /\ result' = Returned(Prefix(SortByRecency(filtered), limit))
       \/ /\ SortRaises(filtered)
          \* a sort that fails leaves the list it sorts in some order
          /\ articles' \in IF IsStore(user_preferences) THEN Reorderings(articles)
                           ELSE {articles}
          /\ result' = Raised
    /\ UNCHANGED <<api_key, user_preferences, statistics, clock, hash_seed>>

(***************************************************************************)
(* get_articles_by_category, get_articles_by_sentiment, search_articles,   *)
(* get_statistics, clear_articles                                          *)
(***************************************************************************)
get_articles_by_category(category) ==
    LET Match(a) == a.category = category IN
    /\ result' = Returned(SelectSeq(articles, Match))
    /\ call' = [op |-> "get_articles_by_category"]
    /\ UNCHANGED <<api_key, articles, user_preferences, statistics, clock, hash_seed>>

get_articles_by_sentiment(sentiment) ==
    LET Match(a) == a.sentiment = sentiment IN
    /\ result' = Returned(SelectSeq(articles, Match))
    /\ call' = [op |-> "get_articles_by_sentiment"]
    /\ UNCHANGED <<api_key, articles, user_preferences, statistics, clock, hash_seed>>

search_articles(query) ==
    LET q == lower(query)
        Match(a) == Contains(lower(a.title), q) \/ Contains(lower(a.description[1]), q)
    IN
    /\ result' = Returned(SelectSeq(articles, Match))
    /\ call' = [op |-> "search_articles"]
    /\ UNCHANGED <<api_key, articles, user_preferences, statistics, clock, hash_seed>>

get_statistics ==
    /\ result' = Returned([total_articles |-> statistics.total_articles,
                           by_category |-> statistics.by_category,
                           by_sentiment |-> statistics.by_sentiment,
                           by_source |-> statistics.by_source,
                           user_preferences |-> user_preferences])
    /\ call' = [op |-> "get_statistics"]
    /\ UNCHANGED <<api_key, articles, user_preferences, statistics, clock, hash_seed>>

\* clear_articles without the reset of the by_source counter
clear_articles_keeping_by_source ==
    /\ articles' = <<>>
    /\ statistics' = [EmptyStatistics EXCEPT !.by_source = statistics.by_source]
    /\ result' = NoResult
    /\ call' = [op |-> "clear_articles", removed |-> Len(articles)]
    /\ UNCHANGED <<api_key, user_preferences, clock, hash_seed>>

clear_articles ==
    /\ articles' = <<>>
    /\ statistics' = EmptyStatistics
    /\ result' = NoResult
    /\ call' = [op |-> "clear_articles", removed |-> Len(articles)]
    /\ UNCHANGED <<api_key, user_preferences, clock, hash_seed>>

(***************************************************************************)
(* The agent: any sequence of calls.                                       *)
(***************************************************************************)
\* a request is made, and answered, only with a key other than the demo key
NoRequest == [kind |-> "no_request"]

FetchNews ==
    \E now \in (clock + 1)..Min(clock + MaxElapse, MaxClock),
       query \in Queries, category \in FetchCategories, max_results \in 0..MaxResults,
       response \in IF api_key # "" /\ api_key # "demo" THEN Responses ELSE {NoRequest} :
        fetch_news(query, category, max_results, response, now)

SetUserPreferences ==
    \E categories \in CategoryArgs, keywords \in KeywordArgs, sources \in SourceArgs :
        set_user_preferences(categories, keywords, sources)

GetPersonalizedNews == \E limit \in Limits : get_personalized_news(limit)

GetArticlesByCategory == \E category \in CategoryQueries : get_articles_by_category(category)

GetArticlesBySentiment == \E sentiment \in SentimentQueries : get_articles_by_sentiment(sentiment)

SearchArticles == \E query \in SearchQueries : search_articles(query)

Next ==
    \/ FetchNews
    \/ SetUserPreferences
    \/ GetPersonalizedNews
    \/ GetArticlesByCategory
    \/ GetArticlesBySentiment
    \/ SearchArticles
    \/ get_statistics
    \/ clear_articles

Spec == Init /\ [][Next]_vars

(***************************************************************************)
(* _generate_sample_news and _analyze_sentiment on their own: each is      *)
(* applied to arguments drawn from a bounded set.                          *)
(***************************************************************************)
SampleCategories == ListItems(CATEGORIES) \cup {"", "Weather"}

InitSample ==
    /\ __init__(None)
    /\ clock = 0
    /\ hash_seed = 0
    /\ call \in { [op |-> "arguments", category |-> category, count |-> count] :
                    category \in SampleCategories, count \in 0..MaxCount }
    /\ result = NoResult

GenerateSampleNews ==
    /\ call.op = "arguments"
    /\ call' = [call EXCEPT !.op = "_generate_sample_news"]
    /\ result' = Returned(_generate_sample_news(call.category, call.count, clock))
    /\ UNCHANGED <<api_key, articles, user_preferences, statistics, clock, hash_seed>>

SpecSample == InitSample /\ [][GenerateSampleNews]_vars

Vocabulary == {"Win", "profits", "fail", "update"}

RECURSIVE Join(_)
Join(ws) ==
    IF Len(ws) = 0 THEN ""
    ELSE IF Len(ws) = 1 THEN ws[1]
    ELSE LET h == Len(ws) \div 2
         IN  Join(SubSeq(ws, 1, h)) \o " " \o Join(SubSeq(ws, h + 1, Len(ws)))

Phrases == { Join(ws) : ws \in SeqsUpTo(Vocabulary, MaxWords) }

InitSentiment ==
    /\ __init__(None)
    /\ clock = 0
    /\ hash_seed = 0
    /\ call \in { [op |-> "arguments", title |-> title, description |-> description] :
                    title \in Phrases, description \in Phrases }
    /\ result = NoResult

AnalyzeSentiment ==
    /\ call.op = "arguments"
    /\ call' = [call EXCEPT !.op = "_analyze_sentiment"]
    /\ result' = Returned(_analyze_sentiment(
                     [title |-> call.title, description |-> Some(call.description)]))
    /\ UNCHANGED <<api_key, articles, user_preferences, statistics, clock, hash_seed>>

SpecSentiment == InitSentiment /\ [][AnalyzeSentiment]_vars

(***************************************************************************)
(* Properties.                                                             *)
(***************************************************************************)
\* d.get(k, 0)
CountIn(d, k) == IF k \in DOMAIN d THEN d[k] ELSE 0

Stored(P(_)) == Cardinality({ i \in 1..Len(articles) : P(articles[i]) })

ReadOps ==
    {"get_personalized_news", "get_articles_by_category",
     "get_articles_by_sentiment", "search_articles", "get_statistics"}

\* C1: in every reachable state the counters agree with the store:
\* total_articles is the number of stored articles, and each by_category,
\* by_sentiment and by_source counter is the number of stored articles with
\* that value.
C1_CountersAgreeWithStore ==
    /\ statistics.total_articles = Len(articles)
    /\ \A c \in DOMAIN statistics.by_category \cup { articles[i].category : i \in 1..Len(articles) } :
         LET Has(a) == a.category = c IN CountIn(statistics.by_category, c) = Stored(Has)
    /\ \A c \in DOMAIN statistics.by_sentiment \cup { articles[i].sentiment : i \in 1..Len(articles) } :
         LET Has(a) == a.sentiment = c IN CountIn(statistics.by_sentiment, c) = Stored(Has)
    /\ \A c \in DOMAIN statistics.by_source \cup { articles[i].source : i \in 1..Len(articles) } :
         LET Has(a) == a.source = c IN CountIn(statistics.by_source, c) = Stored(Has)

\* C2: a read operation that returns leaves the store (the same articles in
\* the same order), the counters and the preferences as they were.
C2_ReadsArePure ==
    [][ (call'.op \in ReadOps /\ ~result'.raised) =>
          /\ articles' = articles
          /\ statistics' = statistics
          /\ user_preferences' = user_preferences ]_vars

\* what C3 says of one argument of set_user_preferences: a provided list, the
\* empty one included, becomes the preference; an omitted one changes nothing
Replaces(arg, before, after) ==
    IF arg = None THEN after = before ELSE after = arg[1]

\* C3: set_user_preferences replaces each preference list whose argument is
\* provided, a provided empty list included, leaves each list whose argument
\* is omitted as it was, and changes neither the store nor the counters.
C3_PreferencesReplaced ==
    [][ \A categories \in CategoryArgs, keywords \in KeywordArgs, sources \in SourceArgs :
          set_user_preferences(categories, keywords, sources) =>
            /\ Replaces(categories, user_preferences.categories, user_preferences'.categories)
            /\ Replaces(keywords, user_preferences.keywords, user_preferences'.keywords)
            /\ Replaces(sources, user_preferences.sources, user_preferences'.sources)
            /\ articles' = articles
            /\ statistics' = statistics ]_vars

\* C4: fetch_news never raises, whatever the upstream does, and the list it
\* returns is what the call appended to the store.
C4_FetchNeverRaises ==
    [][ call'.op = "fetch_news" =>
          /\ ~result'.raised
          /\ articles' = articles \o result'.value ]_vars

\* C5: clear_articles empties the store and resets every counter and leaves
\* the preferences as they were; a get_statistics right after it reports zero
\* counters, empty mappings and those preferences.
C5_ClearResets ==
    [][ /\ call'.op = "clear_articles" =>
            /\ articles' = <<>>
            /\ statistics'.total_articles = 0
            /\ DOMAIN statistics'.by_category = {}
            /\ DOMAIN statistics'.by_sentiment = {}
            /\ DOMAIN statistics'.by_source = {}
            /\ user_preferences' = user_preferences
        /\ (call.op = "clear_articles" /\ call'.op = "get_statistics") =>
            /\ ~result'.raised
            /\ result'.value.total_articles = 0
            /\ DOMAIN result'.value.by_category = {}
            /\ DOMAIN result'.value.by_sentiment = {}
            /\ DOMAIN result'.value.by_source = {}
            /\ result'.value.user_preferences = user_preferences ]_vars

\* C5: clear_articles has emptied a store that held articles, with
\* preferences that had been set.
C5_Witness ==
    /\ call.op = "clear_articles"
    /\ call.removed > 0
    /\ articles = <<>>
    /\ statistics.total_articles = 0
    /\ user_preferences.categories # <<>>
    /\ user_preferences.keywords # <<>>
    /\ user_preferences.sources # <<>>

\* C6: when the upstream fails or no key is configured, fetch_news returns
\* max_results articles, for every category and every max_results.
C6_FullPageOfSamples ==
    (call.op = "fetch_news" /\ call.upstream \in {"unconfigured", "failed"}) =>
        Len(result.value) = call.max_results

\* an article passes the three filters of the preferences; an empty list
\* passes everything
Passes(a, prefs) ==
    /\ prefs.categories = <<>> \/ a.category \in ListItems(prefs.categories)
    /\ prefs.keywords = <<>> \/
         \E k \in ListItems(prefs.keywords) :
             Occurs(LowerOf(a.title), k) \/ Occurs(LowerOf(a.description[1]), k)
    /\ prefs.sources = <<>> \/ a.source \in ListItems(prefs.sources)

Occurrences(x, xs) == Cardinality({ i \in 1..Len(xs) : xs[i] = x })

\* r is the newest n of the articles xs, newest first
NewestFirst(r, xs, n) ==
    /\ Len(r) = Min(n, Len(xs))
    /\ \A i \in 1..(Len(r) - 1) : r[i].published_at.t >= r[i + 1].published_at.t
    /\ \A i \in 1..Len(r) : Occurrences(r[i], r) <= Occurrences(r[i], xs)
    /\ \A i \in 1..Len(xs) :
         \/ Occurrences(xs[i], r) = Occurrences(xs[i], xs)
         \/ \A j \in 1..Len(r) : r[j].published_at.t >= xs[i].published_at.t

\* C7: get_personalized_news(limit) returns the stored articles that pass the
\* category, keyword and source filters, newest first, cut to limit.
C7_PersonalizedNews ==
    [][ call'.op = "get_personalized_news" =>
          LET Pass(a) == Passes(a, user_preferences) IN
          /\ ~result'.raised
          /\ NewestFirst(result'.value, SelectSeq(articles, Pass), call'.limit) ]_vars

\* the number of places of text at which k occurs
CountOccurrences(text, k) ==
    Cardinality({ i \in 1..(Len(text) - Len(k) + 1) : SubSeq(text, i, i + Len(k) - 1) = k })

\* the occurrences in text of the keywords of a list
TotalOccurrences(text, keywords) ==
    LET n[i \in 0..Len(keywords)] ==
            IF i = 0 THEN 0 ELSE n[i - 1] + CountOccurrences(text, keywords[i])
    IN  n[Len(keywords)]

\* the keywords of a list that occur in text
KeywordsPresent(text, keywords) == { k \in ListItems(keywords) : Occurs(text, k) }

Compare(positive, negative) ==
    IF positive > negative THEN "positive"
    ELSE IF negative > positive THEN "negative"
    ELSE "neutral"

\* C8 as stated: the label compares the number of occurrences of the positive
\* keywords in the lowercased title and description with that of the negative
\* keywords, so that one keyword occurring twice counts twice.
C8_LabelByOccurrences ==
    call.op = "_analyze_sentiment" =>
        LET text == LowerOf(call.title \o " " \o call.description) IN
        result.value = Compare(TotalOccurrences(text, SENTIMENT_KEYWORDS.positive),
                               TotalOccurrences(text, SENTIMENT_KEYWORDS.negative))

\* C8 as amended: the label compares the number of positive keywords that
\* occur in the lowercased title and description with the number of negative
\* keywords that occur in it, each keyword counted once however often it
\* occurs; equal numbers give "neutral"; the neutral keywords have no effect.
C8_LabelByKeywordsPresent ==
    call.op = "_analyze_sentiment" =>
        LET text == LowerOf(call.title \o " " \o call.description) IN
        result.value =
            Compare(Cardinality(KeywordsPresent(text, SENTIMENT_KEYWORDS.positive)),
                    Cardinality(KeywordsPresent(text, SENTIMENT_KEYWORDS.negative)))

\* C8: a text with two positive keywords and one negative keyword has been
\* labelled "positive".
C8_Witness ==
    /\ call.op = "_analyze_sentiment"
    /\ call.title = "Win profits"
    /\ call.description = "fail update"
    /\ result.value = "positive"

\* the entries of the catalog, repeated as the loop of _generate_sample_news
\* repeats it, that the category filter keeps
Available(category) ==
    SampleRepeat * Cardinality({ i \in 1..Len(samples) :
                                   category = "" \/ samples[i].category = category })

\* C9: _generate_sample_news(category, count) returns min(count, entries of
\* the catalog left by the category filter) articles, each of the category
\* asked for when one is given, and never raises.
C9_SampleCount ==
    call.op = "_generate_sample_news" =>
        /\ ~result.raised
        /\ Len(result.value) = Min(call.count, Available(call.category))
        /\ call.category # "" =>
             \A i \in 1..Len(result.value) : result.value[i].category = call.category

\* C9: more articles were asked for than the category has entries.
C9_Witness ==
    /\ call.op = "_generate_sample_news"
    /\ call.category = "Health"
    /\ call.count > Available("Health")
    /\ Len(result.value) = Available("Health")
    /\ Len(result.value) > 0

IsLowerCase(w) == \A i \in 1..Len(w) : SubSeq(w, i, i) \notin CharsOf(UpperCase)

\* an article as the enrichment loop leaves it
Enriched(a) ==
    /\ a.description # None
    /\ a.sentiment \in {"positive", "negative", "neutral"}
    /\ a.sentiment = _analyze_sentiment(a)
    /\ a.summary = _generate_summary(a)
    /\ a.summary # ""
    /\ Len(a.keywords) <= 5
    /\ \A i, j \in 1..Len(a.keywords) : a.keywords[i] = a.keywords[j] => i = j
    /\ \A i \in 1..Len(a.keywords) :
         /\ Len(a.keywords[i]) > 4
         /\ a.keywords[i] \notin common_words
         /\ IsLowerCase(a.keywords[i])

\* C10: every stored article is enriched: its sentiment is the label of its
\* text and its keywords are at most 5 distinct lowercase tokens, none of
\* length <= 4 and none a stop word; also after a fetch_news that was cut
\* short in its enrichment loop.
C10_StoredArticlesEnriched == \A i \in 1..Len(articles) : Enriched(articles[i])

\* C10: a fetch_news was cut short after it had enriched and counted an
\* article, and the store holds articles with 5 keywords.
C10_Witness ==
    /\ call.op = "fetch_news"
    /\ result.raised
    /\ statistics.total_articles > Len(articles)
    /\ Len(articles) > 0
    /\ \A i \in 1..Len(articles) : Len(articles[i].keywords) = 5

====
